---- MODULE Spec2Model ----
(***************************************************************************)
(* State-machine model of modules/http_proxy_base.go (bettercap-ng):       *)
(* the certificate lookup returned by TLSConfigFromCA, the OnRequest /     *)
(* OnResponse hook handlers and logAction, the per-connection SNI handler  *)
(* of httpsWorker, and dumbResponseWriter.Write.                           *)
(*                                                                         *)
(* Strings whose characters the code inspects (hosts, write buffers) are   *)
(* sequences of one-character strings.                                     *)
(***************************************************************************)
EXTENDS Integers, Sequences, FiniteSets, TLC

\* ------------------------------------------------------------------ bounds
\* goroutines that may run the TLS-configuration lookup at the same time
MaxThreads == 2
\* lookups started over one run
MaxLookups == 3
\* request/response exchanges served over one run
MaxExchanges == 2
\* connections accepted by the SNI listener over one run
MaxConns == 2
\* failed Accept calls over one run
MaxAcceptErrors == 1
\* Write calls made through the CONNECT adapter over one run
MaxWrites == 2
\* calls of the host filter over one run
MaxFilterCalls == 2
\* worker goroutines launched by Start over one run
MaxStarts == 1
\* calls of Configure, ConfigureTLS, Start and Stop over one run
MaxCalls == 4

Threads   == 1..MaxThreads
Exchanges == 1..MaxExchanges
Conns     == 1..MaxConns
Workers   == 1..MaxStarts

\* ------------------------------------------------------- string helpers
Str443 == <<"4", "4", "3">>

\* the split point of strings.SplitN(s, ":", 2): the 1-based index of the
\* first ':' of s, 0 when there is none
ColonIndex(s) ==
    IF \E i \in 1..Len(s) : s[i] = ":"
    THEN CHOOSE i \in 1..Len(s) : s[i] = ":" /\ \A j \in 1..(i - 1) : s[j] # ":"
    ELSE 0

\* strings.SplitN(s, ":", 2)
SplitN2(s) ==
    LET ix == ColonIndex(s)
    IN  IF ix = 0 THEN <<s>>
        ELSE <<SubSeq(s, 1, ix - 1), SubSeq(s, ix + 1, Len(s))>>

Digits == {"0", "1", "2", "3", "4", "5", "6", "7", "8", "9"}

DigitVal(c) ==
    CASE c = "0" -> 0 [] c = "1" -> 1 [] c = "2" -> 2 [] c = "3" -> 3
      [] c = "4" -> 4 [] c = "5" -> 5 [] c = "6" -> 6 [] c = "7" -> 7
      [] c = "8" -> 8 [] c = "9" -> 9

RECURSIVE DigitsVal(_)
DigitsVal(s) ==
    IF s = <<>> THEN 0
    ELSE 10 * DigitsVal(SubSeq(s, 1, Len(s) - 1)) + DigitVal(s[Len(s)])

\* strconv.Atoi: an optional sign, then one or more decimal digits; anything
\* else is an error (inputs here are far below the int range)
Atoi(s) ==
    LET signed == s # <<>> /\ s[1] \in {"+", "-"}
        body   == IF signed THEN SubSeq(s, 2, Len(s)) ELSE s
    IN  IF body = <<>> \/ \E i \in 1..Len(body) : body[i] \notin Digits
        THEN [ok |-> FALSE, val |-> 0]
        ELSE [ok |-> TRUE,
              val |-> IF signed /\ s[1] = "-" THEN 0 - DigitsVal(body)
                      ELSE DigitsVal(body)]

\* ------------------------------------------------ certificate lookup
\* the hosts the proxy core passes to the TLS-configuration function
HostInputs ==
    { <<"a">>,
      <<"a", ":", "4", "4", "3">>,
      <<"a", ":", "x">>,
      <<"a", ":", "8", "0">>,
      <<"b">> }

DefaultPort == 443

\* lines 173-181 of the lookup: hostname and port of a "host[:port]" string
HostnameOf(host) == SplitN2(host)[1]

PortOf(host) ==
    LET parts == SplitN2(host)
    IN  IF Len(parts) > 1
        THEN (IF Atoi(parts[2]).ok THEN Atoi(parts[2]).val ELSE DefaultPort)
        ELSE DefaultPort

KeyOf(host) == <<HostnameOf(host), PortOf(host)>>

Keys == { KeyOf(h) : h \in HostInputs }

\* KeyOf over the inputs, computed once
KeyTable == [h \in HostInputs |-> KeyOf(h)]

\* the locals of a goroutine that runs no lookup
NoKey == <<<<>>, 0>>

\* no certificate (Go's nil *tls.Certificate)
NoCert == <<>>

VARIABLES
    \* certificate cache and the goroutines running the lookup
    certCache,      \* key -> cached certificate, NoCert when absent
    tpc,            \* thread -> "idle" | "sign" | "set"
    tkey,           \* thread -> its local variables <<hostname, port>>
    tcert,          \* thread -> its local variable cert
    tret,           \* thread -> the (config, err) its last lookup returned
    nextSerial,     \* the serial the next signed certificate gets
    nLookups,       \* lookups started so far
    signCalls,      \* key -> calls of SignCertificateForHost (history)
    signFails,      \* key -> calls of SignCertificateForHost that failed (history)
    returned,       \* key -> certificates handed out in a config (history)
    okLookups,      \* key -> lookups that returned a config (history)
    \* hook dispatcher
    Script,         \* TRUE when p.Script is set
    Name,           \* p.Name
    xpc,            \* exchange -> position of the exchange in the pipeline
    handed,         \* exchange -> the response the last handler returned
    reqHook,        \* exchange -> what Script.OnRequest did ("none": not called)
    respHook,       \* exchange -> what Script.OnResponse did ("none": not called)
    upstream,       \* exchange -> round trips to the real upstream
    client,         \* exchange -> what the client received
    events,         \* sess.Events: the sequence of recorded events
    \* SNI listener
    cpc,            \* connection -> position of its handler goroutine
    hello,          \* connection -> what the ClientHello peek yields
    served,         \* the (request, writer) pairs handed to p.Proxy.ServeHTTP
    closed,         \* the connections that were closed
    acceptErrors,   \* failed Accept calls so far
    \* CONNECT adapter
    rawWrites,      \* the buffers passed to the raw connection's Write
    lastWrite,      \* the last adapter Write: its buffer, results and path
    nWrites,        \* adapter Write calls so far
    \* host filter
    filterLog,      \* the doProxy calls so far: the request host and the result
    \* requests entering the proxy
    ekind,          \* exchange -> "plain" | "tunnel", "none" before it arrives
    ehost,          \* exchange -> req.Host
    eurl,           \* exchange -> req.URL.Host
    estage,         \* exchange -> "none" | "arrived" | "refused" | "pipeline"
    \* lifecycle: the fields of the proxy
    isTLS,          \* p.isTLS
    isRunning,      \* p.isRunning
    sniListener,    \* p.sniListener: 0 is nil, w the listener bound by worker w
    Redirection,    \* p.Redirection: 0 is nil, else the descriptor
    srvListeners,   \* the listeners p.Server tracks (by the worker that bound them)
    srvShut,        \* p.Server.Shutdown was called on the current p.Server
    \* lifecycle: the environment
    fwActive,       \* the redirections active in the firewall
    forwarding,     \* the firewall's forwarding switch
    lsn,            \* worker -> state of the listener it bound: "none" | "open" | "closed"
    \* lifecycle: control
    wpc,            \* worker goroutine -> position
    spc,            \* the caller's position inside Stop
    panicked,       \* a goroutine panicked and nothing recovered it
    \* lifecycle: history
    stopped,        \* the workers that had been launched when Stop cleared p.isRunning
    cfgRet,         \* what the last Configure/ConfigureTLS returned
    nCfg,           \* calls of Configure/ConfigureTLS so far
    nStops,         \* calls of Stop so far
    stopFw,         \* the firewall call of the last Stop: "none" | "ok" | "err"
    stopShut,       \* the last Stop reached its listener shutdown step
    stopRet         \* what the last Stop returned: "none" | "nil" | "err" | "panic"

certVars    == <<certCache, tpc, tkey, tcert, tret, nextSerial, nLookups,
                 signCalls, signFails, returned, okLookups>>
hookVars    == <<Script, Name, xpc, handed, reqHook, respHook, upstream, client, events>>
sniVars     == <<cpc, hello, served, closed, acceptErrors>>
adapterVars == <<rawWrites, lastWrite, nWrites>>
filterVars  == <<filterLog>>
entryVars   == <<ekind, ehost, eurl, estage>>
proxyVars   == <<isTLS, isRunning, sniListener, Redirection, srvListeners, srvShut>>
envVars     == <<fwActive, forwarding, lsn>>
ctlVars     == <<wpc, spc, panicked>>
histVars    == <<stopped, cfgRet, nCfg, nStops, stopFw, stopShut, stopRet>>
lifeVars    == <<proxyVars, envVars, ctlVars, histVars>>
extVars     == <<filterVars, entryVars, lifeVars>>
vars        == <<certVars, hookVars, sniVars, adapterVars, extVars>>

\* getCachedCert(hostname, port): the stored certificate, nil when absent
getCachedCert(key) == certCache[key]

\* setCachedCert(hostname, port, cert): the cache with cert stored under the key
setCachedCert(key, cert) == [certCache EXCEPT ![key] = cert]

\* btls.SignCertificateForHost(ca, hostname, port) when it succeeds: a new
\* leaf certificate for hostname, distinct from every certificate signed before
SignCertificateForHost(key) == <<key[1], nextSerial>>

\* the value the lookup returns: (&config, nil) with Certificates = {*cert},
\* or (nil, err)
ConfigOf(cert) == [config |-> cert, err |-> FALSE]
ErrorReturn    == [config |-> NoCert, err |-> TRUE]
NoReturn       == [config |-> NoCert, err |-> FALSE]

CertInit ==
    /\ certCache = [k \in Keys |-> NoCert]
    /\ tpc = [t \in Threads |-> "idle"]
    /\ tkey = [t \in Threads |-> NoKey]
    /\ tcert = [t \in Threads |-> NoCert]
    /\ tret = [t \in Threads |-> NoReturn]
    /\ nextSerial = 1
    /\ nLookups = 0
    /\ signCalls = [k \in Keys |-> 0]
    /\ signFails = [k \in Keys |-> 0]
    /\ returned = [k \in Keys |-> {}]
    /\ okLookups = [k \in Keys |-> 0]

\* The lookup returns a config for cert (lines 195-200).
ReturnConfig(t, key, cert) ==
    /\ tret' = [tret EXCEPT ![t] = ConfigOf(cert)]
    /\ returned' = [returned EXCEPT ![key] = @ \cup {cert}]
    /\ okLookups' = [okLookups EXCEPT ![key] = @ + 1]
    /\ tpc' = [tpc EXCEPT ![t] = "idle"]

\* The branch on the cache lookup (line 184), mutated: the cached certificate
\* is ignored and every lookup signs.
LookupBranchAlwaysSign(t, key, cert) ==
    /\ tpc' = [tpc EXCEPT ![t] = "sign"]
    /\ tcert' = [tcert EXCEPT ![t] = NoCert]
    /\ UNCHANGED <<tret, returned, okLookups>>

\* The branch on the cache lookup (line 184): a hit goes straight to the
\* config, a miss goes on to sign.
LookupBranch(t, key, cert) ==
    IF cert = NoCert
    THEN /\ tpc' = [tpc EXCEPT ![t] = "sign"]
         /\ tcert' = [tcert EXCEPT ![t] = cert]
         /\ UNCHANGED <<tret, returned, okLookups>>
    ELSE /\ tcert' = [tcert EXCEPT ![t] = cert]
         /\ ReturnConfig(t, key, cert)

\* A goroutine calls the function returned by TLSConfigFromCA with host:
\* it parses host and asks the cache (lines 172-184).
LookupBegin(t, host) ==
    /\ tpc[t] = "idle"
    /\ nLookups < MaxLookups
    /\ nLookups' = nLookups + 1
    /\ tkey' = [tkey EXCEPT ![t] = KeyTable[host]]
    /\ LookupBranch(t, KeyTable[host], getCachedCert(KeyTable[host]))
    /\ UNCHANGED <<certCache, nextSerial, signCalls, signFails>>
    /\ UNCHANGED <<hookVars, sniVars, adapterVars, extVars>>

\* SignCertificateForHost succeeds (lines 185-186); the goroutine has the new
\* certificate in cert and has not stored it yet.
LookupSignOk(t) ==
    /\ tpc[t] = "sign"
    /\ tcert' = [tcert EXCEPT ![t] = SignCertificateForHost(tkey[t])]
    /\ nextSerial' = nextSerial + 1
    /\ signCalls' = [signCalls EXCEPT ![tkey[t]] = @ + 1]
    /\ tpc' = [tpc EXCEPT ![t] = "set"]
    /\ UNCHANGED <<certCache, tkey, tret, nLookups, signFails, returned, okLookups>>
    /\ UNCHANGED <<hookVars, sniVars, adapterVars, extVars>>

\* What a failed signing leaves behind, mutated: the failure is remembered in
\* the cache (here as the certificate of a key that never verifies) and the
\* call reports no error.
SignFailureCached(t) ==
    /\ certCache' = setCachedCert(tkey[t], <<tkey[t][1], 0>>)
    /\ tret' = [tret EXCEPT ![t] = ConfigOf(<<tkey[t][1], 0>>)]

\* What a failed signing leaves behind (lines 187-190): return nil, err
\* before setCachedCert is reached.
SignFailure(t) ==
    /\ certCache' = certCache
    /\ tret' = [tret EXCEPT ![t] = ErrorReturn]

\* SignCertificateForHost fails (lines 186-190).
LookupSignFail(t) ==
    /\ tpc[t] = "sign"
    /\ signCalls' = [signCalls EXCEPT ![tkey[t]] = @ + 1]
    /\ signFails' = [signFails EXCEPT ![tkey[t]] = @ + 1]
    /\ SignFailure(t)
    /\ tpc' = [tpc EXCEPT ![t] = "idle"]
    /\ UNCHANGED <<tkey, tcert, nextSerial, nLookups, returned, okLookups>>
    /\ UNCHANGED <<hookVars, sniVars, adapterVars, extVars>>

\* setCachedCert and the return of the config (lines 192-200).
LookupStore(t) ==
    /\ tpc[t] = "set"
    /\ certCache' = setCachedCert(tkey[t], tcert[t])
    /\ ReturnConfig(t, tkey[t], tcert[t])
    /\ UNCHANGED <<tkey, tcert, nextSerial, nLookups, signCalls, signFails>>
    /\ UNCHANGED <<hookVars, sniVars, adapterVars, extVars>>

\* Lookups from any goroutine, in any interleaving.
CertNext ==
    \/ \E t \in Threads, h \in HostInputs : LookupBegin(t, h)
    \/ \E t \in Threads : LookupSignOk(t)
    \/ \E t \in Threads : LookupSignFail(t)
    \/ \E t \in Threads : LookupStore(t)

\* A lookup that starts only when no other lookup is in flight.
LookupBeginSeq(t, host) ==
    /\ \A u \in Threads : tpc[u] = "idle"
    /\ LookupBegin(t, host)

\* Lookups one after the other.
CertSeqNext ==
    \/ \E t \in Threads, h \in HostInputs : LookupBeginSeq(t, h)
    \/ \E t \in Threads : LookupSignOk(t)
    \/ \E t \in Threads : LookupSignFail(t)
    \/ \E t \in Threads : LookupStore(t)

\* ---------------------------------------------------- hook dispatcher
\* What a call of Script.OnRequest / Script.OnResponse can do: return nil
\* ("pass"), return a JSResponse ("synth"), or fail ("panic").
HookOutcomes == {"pass", "synth", "panic"}

ProxyNames == {"http.proxy", "https.proxy"}

HookInit ==
    /\ Script \in BOOLEAN
    /\ Name \in ProxyNames
    /\ xpc = [x \in Exchanges |-> "new"]
    /\ handed = [x \in Exchanges |-> "none"]
    /\ reqHook = [x \in Exchanges |-> "none"]
    /\ respHook = [x \in Exchanges |-> "none"]
    /\ upstream = [x \in Exchanges |-> 0]
    /\ client = [x \in Exchanges |-> "none"]
    /\ events = <<>>

\* logAction: one event named p.Name + ".spoofed-response" added to sess.Events
logAction(x) ==
    Append(events, [tag |-> <<Name, ".spoofed-response">>, exchange |-> x])

\* The OnRequest handler, mutated: the synthetic response is logged but not
\* returned (return req, nil).
OnRequestDropsResponse(x, out) ==
    IF Script
    THEN /\ reqHook' = [reqHook EXCEPT ![x] = out]
         /\ CASE out = "synth" ->
                   /\ events' = logAction(x)
                   /\ handed' = [handed EXCEPT ![x] = "nil"]
                   /\ xpc' = [xpc EXCEPT ![x] = "reqDone"]
              [] out = "pass" ->
                   /\ handed' = [handed EXCEPT ![x] = "nil"]
                   /\ xpc' = [xpc EXCEPT ![x] = "reqDone"]
                   /\ UNCHANGED events
              [] out = "panic" ->
                   /\ xpc' = [xpc EXCEPT ![x] = "panicked"]
                   /\ UNCHANGED <<handed, events>>
    ELSE /\ out = "pass"
         /\ handed' = [handed EXCEPT ![x] = "nil"]
         /\ xpc' = [xpc EXCEPT ![x] = "reqDone"]
         /\ UNCHANGED <<reqHook, events>>

\* The OnRequest handler (lines 68-78): with a script, a non-nil result of
\* Script.OnRequest is logged and returned as the response; a failing
\* Script.OnRequest leaves the handler by the panic, nothing recovers it.
OnRequestDoFunc(x, out) ==
    IF Script
    THEN /\ reqHook' = [reqHook EXCEPT ![x] = out]
         /\ CASE out = "synth" ->
                   /\ events' = logAction(x)
                   /\ handed' = [handed EXCEPT ![x] = "synthetic"]
                   /\ xpc' = [xpc EXCEPT ![x] = "reqDone"]
              [] out = "pass" ->
                   /\ handed' = [handed EXCEPT ![x] = "nil"]
                   /\ xpc' = [xpc EXCEPT ![x] = "reqDone"]
                   /\ UNCHANGED events
              [] out = "panic" ->
                   /\ xpc' = [xpc EXCEPT ![x] = "panicked"]
                   /\ UNCHANGED <<handed, events>>
    ELSE /\ out = "pass"
         /\ handed' = [handed EXCEPT ![x] = "nil"]
         /\ xpc' = [xpc EXCEPT ![x] = "reqDone"]
         /\ UNCHANGED <<reqHook, events>>

\* The proxy core runs the OnRequest handler on a request it received.
RequestLeg(x) ==
    /\ xpc[x] = "new"
    /\ \E out \in HookOutcomes : OnRequestDoFunc(x, out)
    /\ UNCHANGED <<Script, Name, respHook, upstream, client>>
    /\ UNCHANGED <<certVars, sniVars, adapterVars, extVars>>

\* The proxy core after the request leg: a response returned by the handler
\* goes to the client and ends the exchange; otherwise the request is sent
\* to the real upstream.
CoreDispatch(x) ==
    /\ xpc[x] = "reqDone"
    /\ IF handed[x] = "synthetic"
       THEN /\ client' = [client EXCEPT ![x] = "synthetic"]
            /\ xpc' = [xpc EXCEPT ![x] = "done"]
            /\ UNCHANGED <<upstream, handed>>
       ELSE /\ upstream' = [upstream EXCEPT ![x] = @ + 1]
            /\ handed' = [handed EXCEPT ![x] = "upstream"]
            /\ xpc' = [xpc EXCEPT ![x] = "upstreamDone"]
            /\ UNCHANGED client
    /\ UNCHANGED <<Script, Name, reqHook, respHook, events>>
    /\ UNCHANGED <<certVars, sniVars, adapterVars, extVars>>

\* The OnResponse handler, mutated: the synthetic response is returned
\* without the call of logAction.
OnResponseNoLog(x, out) ==
    IF Script
    THEN /\ respHook' = [respHook EXCEPT ![x] = out]
         /\ UNCHANGED events
         /\ CASE out = "synth" ->
                   /\ handed' = [handed EXCEPT ![x] = "synthetic"]
                   /\ xpc' = [xpc EXCEPT ![x] = "respDone"]
              [] out = "pass" ->
                   /\ handed' = [handed EXCEPT ![x] = "upstream"]
                   /\ xpc' = [xpc EXCEPT ![x] = "respDone"]
              [] out = "panic" ->
                   /\ xpc' = [xpc EXCEPT ![x] = "panicked"]
                   /\ UNCHANGED handed
    ELSE /\ out = "pass"
         /\ handed' = [handed EXCEPT ![x] = "upstream"]
         /\ xpc' = [xpc EXCEPT ![x] = "respDone"]
         /\ UNCHANGED <<respHook, events>>

\* The OnResponse handler (lines 80-91): with a script, a non-nil result of
\* Script.OnResponse is logged and returned; otherwise the upstream's
\* response is returned as it came.
OnResponseDoFunc(x, out) ==
    IF Script
    THEN /\ respHook' = [respHook EXCEPT ![x] = out]
         /\ CASE out = "synth" ->
                   /\ events' = logAction(x)
                   /\ handed' = [handed EXCEPT ![x] = "synthetic"]
                   /\ xpc' = [xpc EXCEPT ![x] = "respDone"]
              [] out = "pass" ->
                   /\ handed' = [handed EXCEPT ![x] = "upstream"]
                   /\ xpc' = [xpc EXCEPT ![x] = "respDone"]
                   /\ UNCHANGED events
              [] out = "panic" ->
                   /\ xpc' = [xpc EXCEPT ![x] = "panicked"]
                   /\ UNCHANGED <<handed, events>>
    ELSE /\ out = "pass"
         /\ handed' = [handed EXCEPT ![x] = "upstream"]
         /\ xpc' = [xpc EXCEPT ![x] = "respDone"]
         /\ UNCHANGED <<respHook, events>>

\* The proxy core runs the OnResponse handler on the upstream's response.
ResponseLeg(x) ==
    /\ xpc[x] = "upstreamDone"
    /\ \E out \in HookOutcomes : OnResponseDoFunc(x, out)
    /\ UNCHANGED <<Script, Name, reqHook, upstream, client>>
    /\ UNCHANGED <<certVars, sniVars, adapterVars, extVars>>

\* The proxy core after the response leg: what the handler returned goes to
\* the client.
CoreRelay(x) ==
    /\ xpc[x] = "respDone"
    /\ client' = [client EXCEPT ![x] = handed[x]]
    /\ xpc' = [xpc EXCEPT ![x] = "done"]
    /\ UNCHANGED <<Script, Name, handed, reqHook, respHook, upstream, events>>
    /\ UNCHANGED <<certVars, sniVars, adapterVars, extVars>>

HookNext ==
    \/ \E x \in Exchanges : RequestLeg(x)
    \/ \E x \in Exchanges : CoreDispatch(x)
    \/ \E x \in Exchanges : ResponseLeg(x)
    \/ \E x \in Exchanges : CoreRelay(x)

\* ------------------------------------------- SNI sniffer / CONNECT bridge
\* What vhost.TLS(c) and tlsConn.Host() yield for a connection: an error
\* (ok = FALSE), or the server name of the ClientHello, empty when it has none.
Hellos ==
    { [ok |-> FALSE, host |-> <<>>],
      [ok |-> TRUE,  host |-> <<>>],
      [ok |-> TRUE,  host |-> <<"a">>],
      [ok |-> TRUE,  host |-> <<"b", ".", "c">>] }

NoHello == [ok |-> FALSE, host |-> <<>>]

\* net.JoinHostPort(host, port): host:port, with host in brackets when it
\* contains a colon or a percent sign
JoinHostPort(host, port) ==
    IF \E i \in 1..Len(host) : host[i] \in {":", "%"}
    THEN <<"[">> \o host \o <<"]", ":">> \o port
    ELSE host \o <<":">> \o port

\* The request the handler builds (lines 296-304).
SyntheticRequest(hostname) ==
    [Method |-> "CONNECT",
     Opaque |-> hostname,
     URLHost |-> JoinHostPort(hostname, Str443),
     Host   |-> hostname]

SniInit ==
    /\ cpc = [c \in Conns |-> "free"]
    /\ hello = [c \in Conns |-> NoHello]
    /\ served = <<>>
    /\ closed = {}
    /\ acceptErrors = 0

\* sniListener.Accept() returns a connection and the loop starts its handler
\* goroutine (lines 275, 281, 307).
Accept(c, h) ==
    /\ cpc[c] = "free"
    /\ cpc' = [cpc EXCEPT ![c] = "accepted"]
    /\ hello' = [hello EXCEPT ![c] = h]
    /\ UNCHANGED <<served, closed, acceptErrors>>
    /\ UNCHANGED <<certVars, hookVars, adapterVars, extVars>>

\* sniListener.Accept() returns an error: it is logged and the loop goes on
\* (lines 276-279).
AcceptError ==
    /\ acceptErrors < MaxAcceptErrors
    /\ acceptErrors' = acceptErrors + 1
    /\ UNCHANGED <<cpc, hello, served, closed>>
    /\ UNCHANGED <<certVars, hookVars, adapterVars, extVars>>

\* The handler goroutine, mutated: the check for an empty server name is
\* missing.
HandlerNoEmptyCheck(c) ==
    IF ~hello[c].ok
    THEN /\ cpc' = [cpc EXCEPT ![c] = "abandoned"]
         /\ UNCHANGED <<served, closed>>
    ELSE /\ served' = Append(served, [req |-> SyntheticRequest(hello[c].host),
                                      writer |-> c])
         /\ cpc' = [cpc EXCEPT ![c] = "bridged"]
         /\ UNCHANGED closed

\* The handler goroutine (lines 281-307): on a failed peek or an empty server
\* name it logs and returns, and nothing in it closes the connection;
\* otherwise it calls p.Proxy.ServeHTTP with the synthetic CONNECT request and
\* a dumbResponseWriter around the connection.
Handler(c) ==
    IF ~hello[c].ok \/ hello[c].host = <<>>
    THEN /\ cpc' = [cpc EXCEPT ![c] = "abandoned"]
         /\ UNCHANGED <<served, closed>>
    ELSE /\ served' = Append(served, [req |-> SyntheticRequest(hello[c].host),
                                      writer |-> c])
         /\ cpc' = [cpc EXCEPT ![c] = "bridged"]
         /\ UNCHANGED closed

HandleConn(c) ==
    /\ cpc[c] = "accepted"
    /\ Handler(c)
    /\ UNCHANGED <<hello, acceptErrors>>
    /\ UNCHANGED <<certVars, hookVars, adapterVars, extVars>>

SniNext ==
    \/ \E c \in Conns, h \in Hellos : Accept(c, h)
    \/ AcceptError
    \/ \E c \in Conns : HandleConn(c)

\* ------------------------------------------------------ CONNECT adapter
\* "HTTP/1.0 200 OK\r\n\r\n"
OkConnectBytes ==
    <<"H", "T", "T", "P", "/", "1", ".", "0", " ", "2", "0", "0", " ",
      "O", "K", "\r", "\n", "\r", "\n">>

\* the buffers written through the adapter
WriteInputs ==
    { OkConnectBytes,
      OkConnectBytes \o <<"x">>,
      <<"x">> \o OkConnectBytes,
      OkConnectBytes \o OkConnectBytes,
      SubSeq(OkConnectBytes, 1, Len(OkConnectBytes) - 2),
      <<"H", "T", "T", "P", "/", "1", ".", "1", " ", "2", "0", "0", " ",
        "O", "K", "\r", "\n", "\r", "\n">>,
      <<"x">>,
      <<>> }

NoWrite == [buf |-> <<>>, n |-> 0, err |-> FALSE, raw |-> FALSE,
            rawN |-> 0, rawErr |-> FALSE]

AdapterInit ==
    /\ rawWrites = <<>>
    /\ lastWrite = NoWrite
    /\ nWrites = 0

\* The test of line 250, mutated: bytes.HasPrefix in place of bytes.Equal.
IsOkConnectPrefix(buf) ==
    /\ Len(buf) >= Len(OkConnectBytes)
    /\ SubSeq(buf, 1, Len(OkConnectBytes)) = OkConnectBytes

\* bytes.Equal(buf, []byte("HTTP/1.0 200 OK\r\n\r\n")) (line 250)
IsOkConnect(buf) ==
    /\ Len(buf) = Len(OkConnectBytes)
    /\ \A i \in 1..Len(buf) : buf[i] = OkConnectBytes[i]

\* What the raw connection's Write can return for buf (line 253): the number
\* of bytes it took, with an error exactly when that is fewer than len(buf).
RawResults(buf) == 0..Len(buf)

\* dumbResponseWriter.Write(buf) (lines 249-254)
Write(buf) ==
    /\ nWrites < MaxWrites
    /\ nWrites' = nWrites + 1
    /\ IF IsOkConnect(buf)
       THEN /\ rawWrites' = rawWrites
            /\ lastWrite' = [buf |-> buf, n |-> Len(buf), err |-> FALSE,
                             raw |-> FALSE, rawN |-> 0, rawErr |-> FALSE]
       ELSE \E rawN \in RawResults(buf) :
            /\ rawWrites' = Append(rawWrites, buf)
            /\ lastWrite' = [buf |-> buf, n |-> rawN, err |-> rawN < Len(buf),
                             raw |-> TRUE, rawN |-> rawN,
                             rawErr |-> rawN < Len(buf)]
    /\ UNCHANGED <<certVars, hookVars, sniVars, extVars>>

AdapterNext ==
    \E buf \in WriteInputs : Write(buf)

\* ----------------------------------------------------------- host filter
StrLocalhost == <<"l", "o", "c", "a", "l", "h", "o", "s", "t">>
StrLoopback  == <<"1", "2", "7", ".", "0", ".", "0", ".", "1">>

\* the blacklist of doProxy (lines 113-116)
blacklist == <<StrLocalhost, StrLoopback>>

\* strings.HasPrefix(s, prefix)
HasPrefix(s, prefix) ==
    /\ Len(s) >= Len(prefix)
    /\ \A i \in 1..Len(prefix) : s[i] = prefix[i]

\* doProxy, mutated: a host is blacklisted only when it equals an entry.
doProxyExactMatch(host) ==
    /\ host # <<>>
    /\ \A i \in 1..Len(blacklist) : host # blacklist[i]

\* doProxy (lines 112-131)
doProxy(host) ==
    IF host = <<>>
    THEN FALSE
    ELSE IF \E i \in 1..Len(blacklist) : HasPrefix(host, blacklist[i])
         THEN FALSE
         ELSE TRUE

\* the request hosts the filter is asked about
FilterHosts ==
    { <<>>,
      StrLocalhost,
      StrLocalhost \o <<":", "8", "0">>,
      StrLocalhost \o <<".", "e", "v", "i", "l">>,
      StrLoopback,
      StrLoopback \o <<":", "8", "0", "8", "0">>,
      StrLoopback \o <<"0">>,
      <<"e", "x", "a", "m", "p", "l", "e", ".", "c", "o", "m">>,
      <<"l", "o", "c", "a", "l">>,
      <<"x">> \o StrLocalhost,
      <<"1", "2", "7", ".", "0", ".", "0", ".", "2">>,
      <<"L", "O", "C", "A", "L", "H", "O", "S", "T">> }

FilterInit == filterLog = <<>>

\* One call of doProxy with a request whose Host is host.
DoProxyCall(host) ==
    /\ Len(filterLog) < MaxFilterCalls
    /\ filterLog' = Append(filterLog, [host |-> host, ok |-> doProxy(host)])
    /\ UNCHANGED <<certVars, hookVars, sniVars, adapterVars, entryVars, lifeVars>>

FilterNext == \E h \in FilterHosts : DoProxyCall(h)

\* ------------------------------------------- requests entering the proxy
\* the hosts of the requests that reach the proxy
EntryHosts ==
    { <<>>, StrLocalhost, StrLoopback \o <<":", "8", "0", "8", "0">>, <<"e", "x", "a", "m", "p", "l", "e", ".", "c", "o", "m">> }

\* how a request reaches the proxy: "plain" is a non-CONNECT request served
\* by the NonproxyHandler, "tunnel" a request decrypted inside a CONNECT
\* tunnel that the proxy intercepts (line 67: every CONNECT is intercepted)
EntryKinds == {"plain", "tunnel"}

EntryInit ==
    /\ ekind = [x \in Exchanges |-> "none"]
    /\ ehost = [x \in Exchanges |-> <<>>]
    /\ eurl = [x \in Exchanges |-> <<>>]
    /\ estage = [x \in Exchanges |-> "none"]

\* A request reaches the proxy.
Arrive(x, kind, host) ==
    /\ estage[x] = "none"
    /\ ekind' = [ekind EXCEPT ![x] = kind]
    /\ ehost' = [ehost EXCEPT ![x] = host]
    /\ estage' = [estage EXCEPT ![x] = "arrived"]
    /\ UNCHANGED <<eurl, certVars, hookVars, sniVars, adapterVars, filterVars, lifeVars>>

\* The NonproxyHandler (lines 60-65): a request doProxy accepts gets its
\* URL.Host set to its Host and goes to p.Proxy.ServeHTTP; any other request
\* is dropped.
NonproxyHandler(x) ==
    IF doProxy(ehost[x]) = TRUE
    THEN /\ eurl' = [eurl EXCEPT ![x] = ehost[x]]
         /\ estage' = [estage EXCEPT ![x] = "pipeline"]
    ELSE /\ estage' = [estage EXCEPT ![x] = "refused"]
         /\ UNCHANGED eurl

\* The proxy core serves a plain request through the NonproxyHandler.
ServePlain(x) ==
    /\ estage[x] = "arrived"
    /\ ekind[x] = "plain"
    /\ NonproxyHandler(x)
    /\ UNCHANGED <<ekind, ehost, certVars, hookVars, sniVars, adapterVars, filterVars, lifeVars>>

\* The proxy core hands a request decrypted inside an intercepted CONNECT
\* tunnel to the request handlers; between the tunnel and the OnRequest
\* handler (lines 67-78) nothing calls doProxy.
ServeTunnel(x) ==
    /\ estage[x] = "arrived"
    /\ ekind[x] = "tunnel"
    /\ eurl' = [eurl EXCEPT ![x] = ehost[x]]
    /\ estage' = [estage EXCEPT ![x] = "pipeline"]
    /\ UNCHANGED <<ekind, ehost, certVars, hookVars, sniVars, adapterVars, filterVars, lifeVars>>

\* The request leg of a request that entered the pipeline.
EntryRequestLeg(x) ==
    /\ estage[x] = "pipeline"
    /\ RequestLeg(x)

EntryNext ==
    \/ \E x \in Exchanges, k \in EntryKinds, h \in EntryHosts : Arrive(x, k, h)
    \/ \E x \in Exchanges : ServePlain(x)
    \/ \E x \in Exchanges : ServeTunnel(x)
    \/ \E x \in Exchanges : EntryRequestLeg(x)
    \/ \E x \in Exchanges : CoreDispatch(x)

\* -------------------------------------------------------------- lifecycle
\* the script paths given to Configure: none, one that loads, one that fails
ScriptPaths == {"none", "good", "bad"}

\* the redirection descriptors firewall.NewRedirection builds (line 159):
\* they differ in the http.port they redirect from
RedirDescs == {1, 2}

LifeInit ==
    /\ isTLS = FALSE
    /\ isRunning = FALSE
    /\ sniListener = 0
    /\ Redirection = 0
    /\ srvListeners = {}
    /\ srvShut = FALSE
    /\ fwActive = {}
    /\ forwarding = FALSE
    /\ lsn = [w \in Workers |-> "none"]
    /\ wpc = [w \in Workers |-> "none"]
    /\ spc = "idle"
    /\ panicked = FALSE
    /\ stopped = {}
    /\ cfgRet = "none"
    /\ nCfg = 0
    /\ nStops = 0
    /\ stopFw = "none"
    /\ stopShut = FALSE
    /\ stopRet = "none"

\* Firewall.EnableRedirection(desc, enabled) when it returns no error: the
\* redirections active afterwards; enabling and disabling are idempotent.
EnableRedirection(active, desc, enabled) ==
    IF enabled THEN active \cup {desc} ELSE active \ {desc}

\* the variables of the other components no lifecycle step changes
lifeRest == <<certVars, adapterVars, filterVars, entryVars,
              xpc, handed, reqHook, respHook, upstream, client, events,
              served, closed>>

\* calls of Configure, ConfigureTLS, Start and Stop so far
nCalls == nCfg + nStops + Cardinality({w \in Workers : wpc[w] # "none"})

\* the caller is between two calls, the process is alive and a call is left
CallerIdle == spc = "idle" /\ ~panicked /\ nCalls < MaxCalls

\* What Configure returns (lines 138-168): the error of the script load, or
\* the error of EnableRedirection, or nil.
ConfigureResult(scriptPath, fwOk) ==
    IF scriptPath = "bad"
    THEN "err"
    ELSE IF ~fwOk THEN "err" ELSE "nil"

\* The body of Configure (lines 133-169). A script path is loaded into
\* p.Script and a failed load returns at once; then p.Server is replaced,
\* forwarding is switched on, p.Redirection is replaced by the new descriptor
\* and the firewall is asked to enable it.
ConfigureBody(scriptPath, desc, fwOk) ==
    /\ Script' = IF scriptPath = "none" THEN Script ELSE (scriptPath = "good")
    /\ IF scriptPath = "bad"
       THEN UNCHANGED <<srvListeners, srvShut, forwarding, Redirection, fwActive>>
       ELSE /\ srvListeners' = {}
            /\ srvShut' = FALSE
            /\ forwarding' = TRUE
            /\ Redirection' = desc
            /\ fwActive' = IF fwOk
                           THEN EnableRedirection(fwActive, desc, TRUE)
                           ELSE fwActive

\* Configure (lines 133-169)
Configure(scriptPath, desc, fwOk) ==
    /\ CallerIdle
    /\ nCfg' = nCfg + 1
    /\ ConfigureBody(scriptPath, desc, fwOk)
    /\ cfgRet' = ConfigureResult(scriptPath, fwOk)
    /\ UNCHANGED <<Name, isTLS, isRunning, sniListener, lsn, ctlVars>>
    /\ UNCHANGED <<stopped, nStops, stopFw, stopShut, stopRet>>
    /\ UNCHANGED <<cpc, hello, acceptErrors, lifeRest>>

\* ConfigureTLS (lines 204-234): Configure, and when it returned no error the
\* proxy is switched to TLS mode and renamed before the CA material is
\* loaded and parsed; caOk is whether tls.X509KeyPair and
\* x509.ParseCertificate accept what was read.
ConfigureTLS(scriptPath, desc, fwOk, caOk) ==
    /\ CallerIdle
    /\ nCfg' = nCfg + 1
    /\ ConfigureBody(scriptPath, desc, fwOk)
    /\ IF ConfigureResult(scriptPath, fwOk) = "err"
       THEN /\ cfgRet' = "err"
            /\ UNCHANGED <<isTLS, Name>>
       ELSE /\ isTLS' = TRUE
            /\ Name' = "https.proxy"
            /\ cfgRet' = IF caOk THEN "nil" ELSE "err"
    /\ UNCHANGED <<isRunning, sniListener, lsn, ctlVars>>
    /\ UNCHANGED <<stopped, nStops, stopFw, stopShut, stopRet>>
    /\ UNCHANGED <<cpc, hello, acceptErrors, lifeRest>>

\* Start (lines 313-327): the worker goroutine is launched, whatever the
\* state of the configuration.
Start(w) ==
    /\ CallerIdle
    /\ wpc[w] = "none"
    /\ \A v \in Workers : v < w => wpc[v] # "none"
    /\ wpc' = [wpc EXCEPT ![w] = "spawned"]
    /\ UNCHANGED <<proxyVars, envVars, spc, panicked, histVars>>
    /\ UNCHANGED <<Script, Name, cpc, hello, acceptErrors, lifeRest>>

\* the address of p.Server.Addr is free when no listener is open on it
AddrFree == \A w \in Workers : lsn[w] # "open"

\* The goroutine of Start in TLS mode enters httpsWorker (lines 264-272):
\* p.sniListener takes what net.Listen returns, nil with an error, and on an
\* error the worker returns.
httpsWorkerListen(w, ok) ==
    /\ ~panicked
    /\ wpc[w] = "spawned"
    /\ isTLS
    /\ ok => AddrFree
    /\ IF ok
       THEN /\ sniListener' = w
            /\ lsn' = [lsn EXCEPT ![w] = "open"]
            /\ wpc' = [wpc EXCEPT ![w] = "bound"]
       ELSE /\ sniListener' = 0
            /\ wpc' = [wpc EXCEPT ![w] = "failed"]
            /\ UNCHANGED lsn
    /\ UNCHANGED <<isTLS, isRunning, Redirection, srvListeners, srvShut>>
    /\ UNCHANGED <<fwActive, forwarding, spc, panicked, histVars>>
    /\ UNCHANGED <<Script, Name, cpc, hello, acceptErrors, lifeRest>>

\* httpsWorker sets p.isRunning (line 273).
httpsWorkerSetRunning(w) ==
    /\ ~panicked
    /\ wpc[w] = "bound"
    /\ isRunning' = TRUE
    /\ wpc' = [wpc EXCEPT ![w] = "loop"]
    /\ UNCHANGED <<isTLS, sniListener, Redirection, srvListeners, srvShut>>
    /\ UNCHANGED <<envVars, spc, panicked, histVars>>
    /\ UNCHANGED <<Script, Name, cpc, hello, acceptErrors, lifeRest>>

\* The test of the accept loop (line 274): for p.isRunning.
httpsWorkerTest(w) ==
    /\ ~panicked
    /\ wpc[w] = "loop"
    /\ wpc' = [wpc EXCEPT ![w] = IF isRunning THEN "accepting" ELSE "exited"]
    /\ UNCHANGED <<proxyVars, envVars, spc, panicked, histVars>>
    /\ UNCHANGED <<Script, Name, cpc, hello, acceptErrors, lifeRest>>

\* p.sniListener.Accept() returns connection c, whose ClientHello will be h:
\* the handler goroutine is launched and the loop goes on (lines 275-307).
httpsWorkerAccept(w, c, h) ==
    /\ ~panicked
    /\ wpc[w] = "accepting"
    /\ sniListener # 0
    /\ lsn[sniListener] = "open"
    /\ cpc[c] = "free"
    /\ \A d \in Conns : d < c => cpc[d] # "free"
    /\ cpc' = [cpc EXCEPT ![c] = "accepted"]
    /\ hello' = [hello EXCEPT ![c] = h]
    /\ wpc' = [wpc EXCEPT ![w] = "loop"]
    /\ UNCHANGED <<proxyVars, envVars, spc, panicked, histVars>>
    /\ UNCHANGED <<Script, Name, acceptErrors, lifeRest>>

\* The accept loop after an Accept error, mutated: the worker returns.
AcceptErrorReturns(w) ==
    wpc' = [wpc EXCEPT ![w] = "exited"]

\* The accept loop after an Accept error (lines 276-279): continue.
AcceptErrorContinue(w) ==
    wpc' = [wpc EXCEPT ![w] = "loop"]

\* p.sniListener.Accept() returns an error, as it does on a closed listener
\* and may on an open one; on a nil p.sniListener the call panics.
httpsWorkerAcceptError(w) ==
    /\ ~panicked
    /\ wpc[w] = "accepting"
    /\ IF sniListener = 0
       THEN /\ panicked' = TRUE
            /\ UNCHANGED <<wpc, acceptErrors>>
       ELSE /\ acceptErrors < MaxAcceptErrors
            /\ acceptErrors' = acceptErrors + 1
            /\ AcceptErrorContinue(w)
            /\ UNCHANGED panicked
    /\ UNCHANGED <<proxyVars, envVars, spc, histVars>>
    /\ UNCHANGED <<Script, Name, cpc, hello, lifeRest>>

\* The handler goroutine of an accepted connection.
httpsWorkerHandle(c) ==
    /\ ~panicked
    /\ HandleConn(c)

\* The goroutine of Start in plain mode runs httpWorker (lines 236-239):
\* p.isRunning is set and p.Server.ListenAndServe binds the address and
\* serves, or returns an error; after Shutdown it returns an error at once.
httpWorker(w, ok) ==
    /\ ~panicked
    /\ wpc[w] = "spawned"
    /\ ~isTLS
    /\ ok => (AddrFree /\ ~srvShut)
    /\ isRunning' = TRUE
    /\ IF ok
       THEN /\ lsn' = [lsn EXCEPT ![w] = "open"]
            /\ srvListeners' = srvListeners \cup {w}
            /\ wpc' = [wpc EXCEPT ![w] = "serving"]
       ELSE /\ wpc' = [wpc EXCEPT ![w] = "failed"]
            /\ UNCHANGED <<lsn, srvListeners>>
    /\ UNCHANGED <<isTLS, sniListener, Redirection, srvShut>>
    /\ UNCHANGED <<fwActive, forwarding, spc, panicked, histVars>>
    /\ UNCHANGED <<Script, Name, cpc, hello, acceptErrors, lifeRest>>

\* ListenAndServe returns once its listener is closed.
httpWorkerReturn(w) ==
    /\ ~panicked
    /\ wpc[w] = "serving"
    /\ lsn[w] = "closed"
    /\ wpc' = [wpc EXCEPT ![w] = "exited"]
    /\ UNCHANGED <<proxyVars, envVars, spc, panicked, histVars>>
    /\ UNCHANGED <<Script, Name, cpc, hello, acceptErrors, lifeRest>>

\* Stop after a failed EnableRedirection(p.Redirection, false), mutated: the
\* error is dropped and Stop goes on to the listener.
StopFirewallErrorIgnored ==
    /\ stopFw' = "err"
    /\ stopRet' = "none"
    /\ spc' = "fwDone"
    /\ UNCHANGED <<Redirection, fwActive>>

\* Stop after a failed EnableRedirection(p.Redirection, false) (lines
\* 332-334): the error is returned.
StopFirewallError ==
    /\ stopFw' = "err"
    /\ stopRet' = "err"
    /\ spc' = "idle"
    /\ UNCHANGED <<Redirection, fwActive>>

\* The first part of Stop (lines 330-335): with a Redirection set the
\* firewall is asked to disable it, and the field is cleared when it did.
StopRedirection(fwOk) ==
    /\ CallerIdle
    /\ nStops' = nStops + 1
    /\ stopShut' = FALSE
    /\ IF Redirection # 0
       THEN IF fwOk
            THEN /\ fwActive' = EnableRedirection(fwActive, Redirection, FALSE)
                 /\ Redirection' = 0
                 /\ stopFw' = "ok"
                 /\ stopRet' = "none"
                 /\ spc' = "fwDone"
            ELSE StopFirewallError
       ELSE /\ fwOk
            /\ stopFw' = "none"
            /\ stopRet' = "none"
            /\ spc' = "fwDone"
            /\ UNCHANGED <<Redirection, fwActive>>
    /\ UNCHANGED <<isTLS, isRunning, sniListener, srvListeners, srvShut>>
    /\ UNCHANGED <<forwarding, lsn, wpc, panicked, stopped, cfgRet, nCfg>>
    /\ UNCHANGED <<Script, Name, cpc, hello, acceptErrors, lifeRest>>

\* Stop in TLS mode clears p.isRunning (lines 338-339).
StopClearRunning ==
    /\ ~panicked
    /\ spc = "fwDone"
    /\ isTLS
    /\ isRunning' = FALSE
    /\ stopped' = stopped \cup {w \in Workers : wpc[w] # "none"}
    /\ spc' = "flagCleared"
    /\ UNCHANGED <<isTLS, sniListener, Redirection, srvListeners, srvShut>>
    /\ UNCHANGED <<envVars, wpc, panicked>>
    /\ UNCHANGED <<cfgRet, nCfg, nStops, stopFw, stopShut, stopRet>>
    /\ UNCHANGED <<Script, Name, cpc, hello, acceptErrors, lifeRest>>

\* Stop in TLS mode calls p.sniListener.Close() and returns nil (lines
\* 340-341); on a nil p.sniListener the call panics.
StopClose ==
    /\ ~panicked
    /\ spc = "flagCleared"
    /\ stopShut' = TRUE
    /\ IF sniListener = 0
       THEN /\ panicked' = TRUE
            /\ stopRet' = "panic"
            /\ UNCHANGED <<lsn, spc>>
       ELSE /\ lsn' = [lsn EXCEPT ![sniListener] = "closed"]
            /\ stopRet' = "nil"
            /\ spc' = "idle"
            /\ UNCHANGED panicked
    /\ UNCHANGED <<proxyVars, fwActive, forwarding, wpc>>
    /\ UNCHANGED <<stopped, cfgRet, nCfg, nStops, stopFw>>
    /\ UNCHANGED <<Script, Name, cpc, hello, acceptErrors, lifeRest>>

\* Stop in plain mode (lines 342-346): p.Server.Shutdown closes the listeners
\* of p.Server and waits for the connections, at most five seconds; Stop
\* returns nil, or the error of the expired wait.
StopShutdown(graceOk) ==
    /\ ~panicked
    /\ spc = "fwDone"
    /\ ~isTLS
    /\ stopShut' = TRUE
    /\ srvShut' = TRUE
    /\ lsn' = [w \in Workers |-> IF w \in srvListeners THEN "closed" ELSE lsn[w]]
    /\ stopRet' = IF graceOk THEN "nil" ELSE "err"
    /\ spc' = "idle"
    /\ UNCHANGED <<isTLS, isRunning, sniListener, Redirection, srvListeners>>
    /\ UNCHANGED <<fwActive, forwarding, wpc, panicked>>
    /\ UNCHANGED <<stopped, cfgRet, nCfg, nStops, stopFw>>
    /\ UNCHANGED <<Script, Name, cpc, hello, acceptErrors, lifeRest>>

\* The one configuration of a proxy that is then left to run: a ConfigureTLS
\* that returns no error.
ServeConfigureTLS(desc) ==
    /\ nCfg = 0
    /\ ConfigureTLS("none", desc, TRUE, TRUE)

\* configuration, start and stop, without the connections
LifeNext ==
    \/ \E sp \in ScriptPaths, d \in RedirDescs, fwOk \in BOOLEAN :
           Configure(sp, d, fwOk)
    \/ \E sp \in ScriptPaths, d \in RedirDescs, fwOk \in BOOLEAN, caOk \in BOOLEAN :
           ConfigureTLS(sp, d, fwOk, caOk)
    \/ \E w \in Workers : Start(w)
    \/ \E w \in Workers, ok \in BOOLEAN : httpsWorkerListen(w, ok)
    \/ \E w \in Workers : httpsWorkerSetRunning(w)
    \/ \E w \in Workers : httpsWorkerTest(w)
    \/ \E w \in Workers : httpsWorkerAcceptError(w)
    \/ \E w \in Workers, ok \in BOOLEAN : httpWorker(w, ok)
    \/ \E w \in Workers : httpWorkerReturn(w)
    \/ \E fwOk \in BOOLEAN : StopRedirection(fwOk)
    \/ StopClearRunning
    \/ StopClose
    \/ \E graceOk \in BOOLEAN : StopShutdown(graceOk)

\* the TLS proxy: its worker, the connections it accepts, and Stop
TlsStopNext ==
    \/ \E sp \in ScriptPaths, d \in RedirDescs, fwOk \in BOOLEAN, caOk \in BOOLEAN :
           ConfigureTLS(sp, d, fwOk, caOk)
    \/ \E w \in Workers : Start(w)
    \/ \E w \in Workers, ok \in BOOLEAN : httpsWorkerListen(w, ok)
    \/ \E w \in Workers : httpsWorkerSetRunning(w)
    \/ \E w \in Workers : httpsWorkerTest(w)
    \/ \E w \in Workers, c \in Conns, h \in Hellos : httpsWorkerAccept(w, c, h)
    \/ \E w \in Workers : httpsWorkerAcceptError(w)
    \/ \E fwOk \in BOOLEAN : StopRedirection(fwOk)
    \/ StopClearRunning
    \/ StopClose

\* the TLS proxy running, Stop not called: its worker and the handlers of
\* the connections it accepts
ServeNext ==
    \/ \E d \in RedirDescs : ServeConfigureTLS(d)
    \/ \E w \in Workers : Start(w)
    \/ \E w \in Workers, ok \in BOOLEAN : httpsWorkerListen(w, ok)
    \/ \E w \in Workers : httpsWorkerSetRunning(w)
    \/ \E w \in Workers : httpsWorkerTest(w)
    \/ \E w \in Workers, c \in Conns, h \in Hellos : httpsWorkerAccept(w, c, h)
    \/ \E w \in Workers : httpsWorkerAcceptError(w)
    \/ \E c \in Conns : httpsWorkerHandle(c)

\* ------------------------------------------------------- specifications
Init ==
    /\ CertInit /\ HookInit /\ SniInit /\ AdapterInit
    /\ FilterInit /\ EntryInit /\ LifeInit

Next ==
    \/ CertNext \/ HookNext \/ SniNext \/ AdapterNext
    \/ FilterNext \/ EntryNext \/ LifeNext \/ TlsStopNext \/ ServeNext

\* the whole model: every component running beside the others
Spec == Init /\ [][Next]_vars

\* the certificate lookup, run by concurrent goroutines
SpecCert == Init /\ [][CertNext]_vars

\* the certificate lookup, one call after the other
SpecCertSeq == Init /\ [][CertSeqNext]_vars

\* the hook dispatcher
SpecHook == Init /\ [][HookNext]_vars

\* the SNI listener and its handler goroutines
SpecSni == Init /\ [][SniNext]_vars

\* the CONNECT adapter
SpecAdapter == Init /\ [][AdapterNext]_vars

\* the host filter
SpecFilter == Init /\ [][FilterNext]_vars

\* requests entering the proxy and their request leg
SpecEntry == Init /\ [][EntryNext]_vars

\* configuration, start and stop of the proxy and its worker goroutines
SpecLife == Init /\ [][LifeNext]_vars

\* the TLS worker, its connections and Stop
SpecTlsStop == Init /\ [][TlsStopNext]_vars

\* the TLS worker and the handlers of its connections, Stop not called
SpecServe == Init /\ [][ServeNext]_vars

\* ---------------------------------------------------------------- claims
\* C1: when lookups for a key not yet cached run concurrently and no signing
\* fails, SignCertificateForHost runs once for the key and every lookup
\* returns the same certificate.
C1_SignedOncePerKey ==
    \A k \in Keys :
        signFails[k] = 0 =>
            /\ signCalls[k] <= 1
            /\ Cardinality(returned[k]) <= 1

\* C2: with lookups run one after the other, once a lookup for a key has
\* returned a config, no later step signs for that key again and every later
\* lookup returns the certificate already handed out.
C2_HitReturnsSameCertNoSigning ==
    [][\A k \in Keys :
          okLookups[k] >= 1 =>
              /\ signCalls'[k] = signCalls[k]
              /\ returned'[k] = returned[k]
              /\ Cardinality(returned[k]) = 1]_vars

C2_Witness ==
    \E k \in Keys :
        /\ okLookups[k] >= 2
        /\ signCalls[k] = 1
        /\ Cardinality(returned[k]) = 1

\* C3: a failed signing makes the lookup return (nil, err) and leaves the
\* cache as it was; no failure is ever stored, and a lookup that starts while
\* its key has no cached certificate returns no config without signing, so
\* it signs again whatever failed before.
C3_FailureStep(t) ==
    tpc[t] = "sign" /\ tpc'[t] = "idle"

C3_SigningFailureNotCached ==
    /\ [][\A t \in Threads :
             C3_FailureStep(t) =>
                 /\ tret'[t] = ErrorReturn
                 /\ certCache' = certCache]_vars
    /\ [][nLookups' # nLookups =>
             \A k \in Keys :
                 okLookups'[k] # okLookups[k] => certCache[k] # NoCert]_vars
    /\ [](\A k \in Keys : certCache[k] # NoCert => certCache[k][2] >= 1)

C3_Witness ==
    \E k \in Keys, t \in Threads :
        /\ signFails[k] >= 1
        /\ okLookups[k] >= 1
        /\ certCache[k] # NoCert
        /\ tkey[t] = k
        /\ tret[t] = ErrorReturn

\* C4: a cache entry, once stored, is never replaced by another certificate
\* and never removed.
C4_CacheEntryImmutable ==
    [][\A k \in Keys :
          certCache[k] # NoCert => certCache'[k] = certCache[k]]_vars

EventsOf(x) == Cardinality({i \in 1..Len(events) : events[i].exchange = x})

\* the synthetic-response decisions taken in exchange x
SynthDecisions(x) ==
    (IF reqHook[x] = "synth" THEN 1 ELSE 0)
      + (IF respHook[x] = "synth" THEN 1 ELSE 0)

C7_HookFailureContained ==
    \A x \in Exchanges :
        (reqHook[x] = "panic" \/ respHook[x] = "panic") =>
            /\ xpc[x] # "panicked"
            /\ EventsOf(x) = 0
            /\ xpc[x] = "done" => (upstream[x] = 1 /\ client[x] = "upstream")

\* the requests handed to the proxy core for connection c
ServedFor(c) == {i \in 1..Len(served) : served[i].writer = c}

SniffFails(c) == ~hello[c].ok \/ hello[c].host = <<>>

HandlerReturned(c) == cpc[c] \in {"bridged", "abandoned"}

\* C8: a connection whose ClientHello peek fails or carries no server name
\* is closed, and no synthetic CONNECT is handed to the proxy core for it.
C8_SniffFailureClosesConn ==
    \A c \in Conns :
        (HandlerReturned(c) /\ SniffFails(c)) =>
            /\ cpc[c] = "abandoned"
            /\ c \in closed
            /\ ServedFor(c) = {}

C10_WriteDropsOnlyOkConnect ==
    [][nWrites' = nWrites + 1 =>
         IF lastWrite'.buf = OkConnectBytes
         THEN /\ rawWrites' = rawWrites
              /\ lastWrite'.n = Len(OkConnectBytes)
              /\ ~lastWrite'.err
         ELSE /\ rawWrites' = Append(rawWrites, lastWrite'.buf)
              /\ lastWrite'.raw
              /\ lastWrite'.n = lastWrite'.rawN
              /\ lastWrite'.err = lastWrite'.rawErr]_vars

C10_Witness ==
    /\ nWrites = 2
    /\ lastWrite.buf = OkConnectBytes
    /\ lastWrite.n = Len(OkConnectBytes)
    /\ rawWrites = << OkConnectBytes \o <<"x">> >>

\* a host the filter has to refuse: empty, or beginning with "localhost" or
\* with "127.0.0.1"
BeginsWith(s, prefix) ==
    /\ Len(s) >= Len(prefix)
    /\ SubSeq(s, 1, Len(prefix)) = prefix

Refused(host) ==
    \/ host = <<>>
    \/ BeginsWith(host, StrLocalhost)
    \/ BeginsWith(host, StrLoopback)

\* C11: doProxy returns false exactly when the request host is empty or
\* begins with "localhost" or "127.0.0.1" (a host that merely starts with a
\* blacklist entry included) and true for every other host; the call
\* changes nothing of the proxy's state.
C11_HostFilterDecision ==
    [][filterLog' # filterLog =>
         /\ Len(filterLog') = Len(filterLog) + 1
         /\ SubSeq(filterLog', 1, Len(filterLog)) = filterLog
         /\ filterLog'[Len(filterLog')].ok = ~Refused(filterLog'[Len(filterLog')].host)
         /\ UNCHANGED <<certVars, hookVars, sniVars, adapterVars, entryVars, lifeVars>>]_vars

C11_Witness ==
    /\ Len(filterLog) = 2
    /\ filterLog[1].host = StrLocalhost \o <<".", "e", "v", "i", "l">>
    /\ filterLog[1].ok = FALSE
    /\ filterLog[2].host = <<"e", "x", "a", "m", "p", "l", "e", ".", "c", "o", "m">>
    /\ filterLog[2].ok = TRUE

\* C12: every request given to a hook or forwarded upstream has passed the
\* host filter, whether it came as a plain request or decrypted inside an
\* intercepted CONNECT tunnel: none of them has an empty or blacklisted host.
C12_ForwardedPassedFilter ==
    \A x \in Exchanges :
        (xpc[x] # "new" \/ reqHook[x] # "none" \/ upstream[x] > 0)
            => ~Refused(ehost[x])

\* a step that begins a call of Stop
StopBegins == nStops' = nStops + 1

\* a step with which a call of Stop ends
StopReturns ==
    /\ spc' = "idle" \/ panicked'
    /\ StopBegins \/ spc # "idle"
    /\ ~panicked

\* a step in which Stop shuts the listener of the configured mode down
ShutdownStep == stopShut' /\ ~stopShut

\* C13: every call of Stop first asks the firewall to remove the Redirection
\* when one is set, and makes no firewall call when none is; only after that
\* it shuts the listener down; and every call reaches the shutdown of the
\* listener before it returns.
C13_StopOrderAndShutdown ==
    [][/\ StopBegins =>
            /\ Redirection # 0 => stopFw' \in {"ok", "err"}
            /\ Redirection = 0 => (stopFw' = "none" /\ fwActive' = fwActive)
            /\ ~stopShut'
       /\ ShutdownStep => (Redirection = 0 /\ spc \in {"fwDone", "flagCleared"})
       /\ StopReturns => stopShut']_vars

\* Stop has returned nil and no worker was launched after it cleared the flag
StopReturnedNil ==
    /\ spc = "idle"
    /\ ~panicked
    /\ stopRet = "nil"
    /\ \A w \in Workers : wpc[w] # "none" => w \in stopped

\* C14: in TLS mode, however the worker goroutine and a later Stop
\* interleave, once Stop has returned the accept listener is closed, the
\* running flag is false and stays false, and the worker is not accepting on
\* an open listener.
C14_StopHaltsTlsWorker ==
    (isTLS /\ StopReturnedNil) =>
        /\ ~isRunning
        /\ sniListener # 0
        /\ \A w \in Workers : lsn[w] # "open"

\* a step that is a call of Configure or ConfigureTLS
ConfigureStep == nCfg' = nCfg + 1

\* C15: whenever Configure or ConfigureTLS returns an error, the call leaves
\* nothing behind: no redirection it installed is active in the firewall and
\* the proxy has not been switched to TLS mode.
C15_FailedConfigureLeavesNothing ==
    [][(ConfigureStep /\ cfgRet' = "err") =>
           /\ fwActive' \subseteq fwActive
           /\ isTLS' = isTLS]_vars

\* C16: after a Configure or ConfigureTLS that failed, and until one
\* succeeds, Start launches no worker.
C16_NoWorkerAfterFailedConfigure ==
    [][cfgRet = "err" =>
           \A w \in Workers : wpc[w] = "none" => wpc'[w] = "none"]_vars

\* C17: in every reachable state at most one redirection enabled by the
\* proxy is active in the firewall, and an active one is the one p.Redirection
\* holds, which Stop will disable.
C17_OneActiveRedirection ==
    /\ Cardinality(fwActive) <= 1
    /\ \A d \in fwActive : d = Redirection

\* the positions of a worker inside its accept loop
LoopPcs == {"loop", "accepting"}

\* steps of the accept loop and of the handlers
AcceptErrorStep == acceptErrors' = acceptErrors + 1

SniffFailureStep ==
    \E c \in Conns : cpc[c] = "accepted" /\ cpc'[c] = "abandoned"

AcceptStep ==
    \E c \in Conns : cpc[c] = "free" /\ cpc'[c] = "accepted"

\* C18: while the TLS proxy runs and Stop has not been called, an Accept
\* error or a failed sniff of a connection does not end the accept loop: the
\* worker is still in the loop and the running flag still set after it; and
\* an accepted connection goes to a handler of its own, the worker being back
\* in its loop with the accept, whatever the other connections are doing.
C18_AcceptLoopSurvives ==
    [][(nStops = 0 /\ (AcceptErrorStep \/ SniffFailureStep \/ AcceptStep)) =>
           /\ \A w \in Workers : wpc[w] \in LoopPcs => wpc'[w] \in LoopPcs
           /\ \E w \in Workers : wpc'[w] \in LoopPcs
           /\ isRunning'
           /\ ~panicked']_vars

C18_Witness ==
    /\ nStops = 0
    /\ acceptErrors = 1
    /\ cpc[1] = "accepted"
    /\ cpc[2] = "abandoned" /\ ~hello[2].ok
    /\ wpc[1] = "accepting"
    /\ isRunning

\* C19: when the firewall returns an error to the Stop that asks it to
\* disable the Redirection, Stop returns the error and changes nothing else:
\* p.Redirection stays set, the running flag and the listeners are
\* as they were and no shutdown step was taken; and a Stop that finds a
\* Redirection set always asks the firewall, so a later Stop tries again.
C19_StopFirewallErrorChangesNothing ==
    [][/\ (StopBegins /\ stopFw' = "err") =>
            /\ Redirection # 0
            /\ stopRet' = "err"
            /\ spc' = "idle"
            /\ ~stopShut'
            /\ UNCHANGED <<proxyVars, lsn, wpc, panicked>>
       /\ (StopBegins /\ Redirection # 0) => stopFw' \in {"ok", "err"}]_vars

C19_Witness ==
    /\ nStops = 2
    /\ stopFw = "err" /\ stopRet = "err"
    /\ spc = "idle"
    /\ Redirection # 0
    /\ isRunning
    /\ \E w \in Workers : lsn[w] = "open"

\* C20: in TLS mode, however Start, the worker goroutine and Stop interleave
\* (Stop before the worker has bound its listener, or without any Start,
\* included), p.sniListener is set when Stop calls Close on it, and a worker
\* that was launched when Stop cleared the running flag never sets it again.
C20_CloseBoundAndFlagStaysCleared ==
    [][/\ (spc = "flagCleared" /\ stopShut') => sniListener # 0
       /\ \A w \in stopped : ~(wpc[w] = "bound" /\ wpc'[w] = "loop")]_vars

====
